---- MODULE Spec2Model ----
(***************************************************************************)
(* Model of the desktop pet "Pebble": src/brain.py (Brain, the model       *)
(* client with its conversation history) and src/body.py (BouncingBall:    *)
(* event cooldown, the background-thread bridge, the result callback).     *)
(*                                                                         *)
(* The specifications share the variables; each tracks a part of them:    *)
(*   SpecBrain   - Brain.get_response called sequentially, one call per    *)
(*                 step, on every prompt and every outcome of ollama.chat; *)
(*   Spec        - the interactive (Tk) thread's callbacks interleaved     *)
(*                 with the steps of the background request thread;        *)
(*   SpecPhysics - the motion: frames of physics, the drag, the actions    *)
(*                 asked by the model;                                     *)
(*   SpecFace    - the speech bubble with its timers, and the mood.        *)
(* In Spec the pet's position and velocity are not tracked: the outcome of *)
(* the wall test (body.py:115), of the hit test (body.py:164) and the      *)
(* squared throw speed (body.py:198) are inputs of the actions.            *)
(***************************************************************************)
EXTENDS Integers, Sequences, FiniteSets, TLC

(* ---------------- bounds of the model ---------------- *)
MaxRequests == 2      \* requests admitted in one behaviour of Spec
MaxThreads == 2       \* thread slots (the code needs one)
EpochStart == 10000   \* clock reading (ms) when the program starts
TimeStep == 2500      \* granularity of the clock (ms)
MaxTime == 15000      \* last clock reading (ms)
SCREEN_WIDTH == 120   \* winfo_screenwidth(), pixels
SCREEN_HEIGHT == 140  \* winfo_screenheight(), pixels
MaxSteps == 10       \* callbacks in one behaviour of SpecPhysics
MaxSays == 3          \* results applied in one behaviour of SpecFace

(* ---------------- program constants ---------------- *)
EVENT_COOLDOWN == 5000
HISTORY_LIMIT == 7
HISTORY_KEEP == 6
FAST_SPEED == 10
TOSS_SPEED == 3
IMAGE_SIZE == 60
GROUND_MARGIN == 50     \* ground_level = screen_height - 50
GROUND_SLACK == 5       \* a jump starts at most 5 pixels above the ground
JUMP_SPEED == 20
SLIDE_SPEED == 15
REST_SPEED == 1         \* a bounce slower than this ends on the ground
BUBBLE_DURATION == 4000 \* say(message, duration_ms=4000)
\* Lengths are fixed-point numbers, UNIT to the pixel; the float constants
\* are in thousandths, and a product is rounded towards zero.
UNIT == 10 * 10
GRAVITY == 900          \* 0.9 (pixel per frame)
BOUNCE_FACTOR == 700    \* 0.7
AIR_FRICTION == 995     \* 0.995
GROUND_FRICTION == 900  \* 0.9

(* ---------------- strings ---------------- *)
\* A string is a sequence of tokens: [c |-> "x"] is the character x,
\* [o |-> d] is the text of the JSON object d (it starts with "{" and ends
\* with "}", and is never split).
Ch(x) == [c |-> x]
Obj(d) == [o |-> d]
IsCh(t) == "c" \in DOMAIN t
IsObj(t) == "o" \in DOMAIN t

Str(s) == [i \in 1..Len(s) |-> Ch(s[i])]

StartsWith(s, p) == Len(s) >= Len(p) /\ SubSeq(s, 1, Len(p)) = p

RECURSIVE LStrip(_, _)
LStrip(s, chars) ==
  IF s # <<>> /\ IsCh(s[1]) /\ s[1].c \in chars THEN LStrip(Tail(s), chars) ELSE s

RECURSIVE RStrip(_, _)
RStrip(s, chars) ==
  IF s # <<>> /\ IsCh(s[Len(s)]) /\ s[Len(s)].c \in chars
  THEN RStrip(SubSeq(s, 1, Len(s) - 1), chars) ELSE s

\* str.strip(chars): drops, at both ends, every character that is in chars
Strip(s, chars) == RStrip(LStrip(s, chars), chars)

JSON_WHITESPACE == {" ", "\n", "\t", "\r"}

\* json.loads: an object surrounded by optional whitespace, else JSONDecodeError
json_loads(s) ==
  LET t == Strip(s, JSON_WHITESPACE)
  IN IF Len(t) = 1 /\ IsObj(t[1]) THEN [ok |-> TRUE, value |-> t[1].o]
     ELSE [ok |-> FALSE, value |-> <<>>]

\* json.dumps of a dict: the text of that object
json_dumps(d) == <<Obj(d)>>

\* the backquote character (a backquote cannot be written in a TLA+ string)
BQ == "backquote"

FENCE_JSON == Str(<<BQ, BQ, BQ, "j", "s", "o", "n">>)

StripFence(raw_content) ==
  IF StartsWith(raw_content, FENCE_JSON)
  THEN Strip(Strip(raw_content, {BQ, "j", "s", "o", "n", "\n"}), {BQ})
  ELSE raw_content

(* ---------------- Brain ---------------- *)
system_prompt == [role |-> "system", content |-> Str(<<"P", "e", "b", "b", "l", "e">>)]

FALLBACK == [response |-> "Rhish MY BRAIN!!", state |-> "angry", action |-> "jump"]

UserTurn(prompt) == [role |-> "user", content |-> prompt]
AssistantTurn(brain_output) == [role |-> "assistant", content |-> json_dumps(brain_output)]

Last(s, n) == IF Len(s) <= n THEN s ELSE SubSeq(s, Len(s) - n + 1, Len(s))

\* a truncation that keeps the last turns only
Truncate_without_system_prompt(history) ==
  IF Len(history) > HISTORY_LIMIT THEN Last(history, HISTORY_KEEP + 1) ELSE history

Truncate(history) ==
  IF Len(history) > HISTORY_LIMIT THEN <<system_prompt>> \o Last(history, HISTORY_KEEP)
  ELSE history

\* a failure that leaves the user turn in the history
Pop_nothing(history) == history

Pop(history) == SubSeq(history, 1, Len(history) - 1)

\* An outcome of ollama.chat: it raises, or it returns a message content.
ChatError == [raised |-> TRUE, content |-> <<>>]
ChatReply(raw_content) == [raised |-> FALSE, content |-> raw_content]

\* body.py never reaches the parse when ollama.chat raised
ParsedOutput(raw_content) ==
  LET parsed == json_loads(StripFence(raw_content))
  IN IF parsed.ok THEN parsed.value ELSE FALLBACK

\* get_response after line 93: history already holds the user turn.
\* Result: the new history, the returned dict and whether the request failed.
get_response_rest(history, outcome) ==
  IF outcome.raised
  THEN [history |-> Pop(history), output |-> FALLBACK, failed |-> TRUE]
  ELSE LET brain_output == ParsedOutput(outcome.content)
       IN [history |-> Truncate(Append(history, AssistantTurn(brain_output))),
           output |-> brain_output,
           failed |-> ~json_loads(StripFence(outcome.content)).ok]

get_response(history, prompt, outcome) ==
  get_response_rest(Append(history, UserTurn(prompt)), outcome)

(* ---------------- inputs ---------------- *)
REPLY_HAPPY == [response |-> "Whee!", state |-> "happy", action |-> "jump"]
REPLY_SAD == [response |-> "Ouch!", state |-> "sad", action |-> "none"]

Plain(d) == <<Obj(d)>>
FencedJson(d) == Str(<<BQ, BQ, BQ, "j", "s", "o", "n", "\n">>) \o <<Obj(d)>> \o Str(<<"\n", BQ, BQ, BQ>>)
NOT_JSON == Str(<<"o", "o", "p", "s">>)
\* a reply without the fields state and action
REPLY_PARTIAL == [response |-> "Hi!"]
\* a fence without the word json, and a fence after a space
FencedBare(d) == Str(<<BQ, BQ, BQ, "\n">>) \o <<Obj(d)>> \o Str(<<"\n", BQ, BQ, BQ>>)
Indented(s) == Str(<<" ">>) \o s

\* f"React to this event: You just {event_description}."
EventPrompt(event_description) == Str(<<"React to this event: You just ", event_description, ".">>)
UserPrompt(user_input) == Str(<<user_input>>)

\* what ollama.chat does in SpecBrain and in Spec
BrainOutcomes ==
  {ChatError, ChatReply(Plain(REPLY_HAPPY)), ChatReply(Plain(REPLY_SAD)),
   ChatReply(FencedJson(REPLY_HAPPY)), ChatReply(NOT_JSON),
   ChatReply(Plain(REPLY_PARTIAL)), ChatReply(FencedBare(REPLY_HAPPY)),
   ChatReply(Indented(FencedJson(REPLY_HAPPY)))}
BrainPrompts == {EventPrompt("hit a wall"), UserPrompt("hello")}
Outcomes == {ChatError, ChatReply(Plain(REPLY_HAPPY)), ChatReply(NOT_JSON)}

\* text typed into the dialog ("" also stands for Cancel: both are falsy)
UserInputs == {"", "hello"}
\* squared throw speeds vx^2 + vy^2 at release, one in each tier
SpeedSqs == {9, 16, 101}

(* ---------------- state ---------------- *)
VARIABLES
  now,                  \* time.time() * 1000
  is_thinking, last_event_time, is_dragging,
  state, bubble_visible, bubble_message,
  hide_timers,          \* pending canvas.after(duration_ms, hide_bubble) timers
  after_queue,          \* pending canvas.after(0, _process_brain_response, out)
  dialog_open,          \* simpledialog.askstring is waiting for the user
  closed,               \* root.destroy() has run
  threads,              \* the threads started by _think_in_background
  conversation_history, \* Brain.conversation_history
  last_call,            \* history variable: the last get_response that returned
  burst,                \* history variable: events raised at this clock reading
  dispatch_times,       \* history variable: times of the last two dispatches
  request_count,        \* history variable: requests admitted so far
  x, y, vx, vy,         \* position and velocity, in 1/UNIT pixel (per frame)
  last_mouse_x, last_mouse_y,
  trace,                \* history variable: the last callback of SpecPhysics
  state_images,         \* the moods whose image file was loaded
  bubble_timers,        \* expiry times of the pending hide_bubble timers
  last_say              \* history variable: the last result shown in SpecFace

vars == <<now, is_thinking, last_event_time, is_dragging, state, bubble_visible,
          bubble_message, hide_timers, after_queue, dialog_open, closed, threads,
          conversation_history, last_call, burst, dispatch_times, request_count,
          x, y, vx, vy, last_mouse_x, last_mouse_y, trace,
          state_images, bubble_timers, last_say>>

\* what SpecPhysics tracks and what SpecFace tracks beyond Spec
kinVars == <<x, y, vx, vy, last_mouse_x, last_mouse_y, trace>>
faceVars == <<state_images, bubble_timers, last_say>>

bodyVars == <<now, is_thinking, last_event_time, is_dragging, state, bubble_visible,
              bubble_message, hide_timers, after_queue, dialog_open, closed, threads,
              burst, dispatch_times, request_count, kinVars, faceVars>>

STATES == {"neutral", "happy", "sad", "teary", "angry", "sleepy"}

IdleThread == [pc |-> "idle", prompt |-> <<>>, output |-> <<>>]
NoCall == [returned |-> FALSE, before |-> <<>>, failed |-> FALSE, output |-> <<>>,
           outcome |-> ChatError]
NoBurst == [first |-> "", sent |-> <<>>, last_sent |-> FALSE]
NoTrace == [op |-> "init", arg |-> "", event |-> "", wall |-> FALSE, rest |-> FALSE,
            steps |-> 0]
NoSay == [count |-> 0, at |-> 0, output |-> <<>>, mood |-> ""]

Init ==
  /\ now = EpochStart
  /\ is_thinking = FALSE
  /\ last_event_time = 0
  /\ is_dragging = FALSE
  /\ state = "neutral"
  /\ bubble_visible = FALSE
  /\ bubble_message = ""
  /\ hide_timers = 0
  /\ after_queue = <<>>
  /\ dialog_open = FALSE
  /\ closed = FALSE
  /\ threads = [t \in 1..MaxThreads |-> IdleThread]
  /\ conversation_history = <<system_prompt>>
  /\ last_call = NoCall
  /\ burst = NoBurst
  /\ dispatch_times = <<>>
  /\ request_count = 0
  /\ x = (SCREEN_WIDTH * UNIT) \div 2
  /\ y = (SCREEN_HEIGHT * UNIT) \div 4
  /\ vx \in {-5 * UNIT, 5 * UNIT}
  /\ vy = 0
  /\ last_mouse_x = 0
  /\ last_mouse_y = 0
  /\ trace = NoTrace
  /\ state_images \in {images \in SUBSET STATES : "neutral" \in images}
  /\ bubble_timers = <<>>
  /\ last_say = NoSay

\* The views that do not track the images assume every file is present;
\* the views that do not track the motion start it to the right.
InitAllImages == Init /\ state_images = STATES
InitBridge == InitAllImages /\ vx = 5 * UNIT

(* ---------------- SpecBrain: get_response alone ---------------- *)
BrainCall(prompt, outcome) ==
  LET r == get_response(conversation_history, prompt, outcome)
  IN /\ conversation_history' = r.history
     /\ last_call' = [returned |-> TRUE, before |-> conversation_history,
                      failed |-> r.failed, output |-> <<r.output>>,
                         outcome |-> outcome]
     /\ UNCHANGED bodyVars

NextBrain == \E prompt \in BrainPrompts, outcome \in BrainOutcomes : BrainCall(prompt, outcome)

SpecBrain == InitBridge /\ [][NextBrain]_vars

(* ---------------- Spec: the interactive thread and the request thread ---- *)
\* What one callback of the interactive thread has done so far to the fields
\* trigger_event and _think_in_background touch; started lists the prompts of
\* the threads it has started.
Main ==
  [is_thinking |-> is_thinking, last_event_time |-> last_event_time,
   started |-> <<>>, burst |-> burst, dispatch_times |-> dispatch_times]

\* a bridge that starts a thread whether or not one is running
_think_in_background_unguarded(m, prompt) ==
  [m EXCEPT !.is_thinking = TRUE, !.started = Append(@, prompt)]

_think_in_background(m, prompt) ==
  IF m.is_thinking THEN m
  ELSE [m EXCEPT !.is_thinking = TRUE, !.started = Append(@, prompt)]

\* a trigger that forgets to restart the cooldown
trigger_event_without_stamp(m, event_description) ==
  IF now - m.last_event_time < EVENT_COOLDOWN THEN m
  ELSE _think_in_background(m, EventPrompt(event_description))

\* a trigger without cooldown
trigger_event_without_cooldown(m, event_description) ==
  _think_in_background([m EXCEPT !.last_event_time = now], EventPrompt(event_description))

trigger_event(m, event_description) ==
  IF now - m.last_event_time < EVENT_COOLDOWN THEN m
  ELSE _think_in_background([m EXCEPT !.last_event_time = now],
                            EventPrompt(event_description))

\* a user prompt that goes through the event cooldown
ask_brain_with_cooldown(m, user_prompt) ==
  IF now - m.last_event_time < EVENT_COOLDOWN THEN m
  ELSE _think_in_background([m EXCEPT !.last_event_time = now], UserPrompt(user_prompt))

ask_brain(m, user_prompt) == _think_in_background(m, UserPrompt(user_prompt))

\* trigger_event, with the history variables. A burst is the run of candidate
\* events raised while not busy at one clock reading, from the first one that
\* finds the cooldown elapsed: first is its description, sent lists the events
\* of the burst handed to a new thread, last_sent tells whether the event
\* raised last has the description of the event that was sent.
Raise(m, event_description) ==
  LET r == trigger_event(m, event_description)
      dispatched == Len(r.started) > Len(m.started)
      ready == now - m.last_event_time >= EVENT_COOLDOWN
      b1 == IF m.burst.first = "" /\ ~m.is_thinking /\ ready
            THEN [m.burst EXCEPT !.first = event_description] ELSE m.burst
      b2 == IF dispatched THEN [b1 EXCEPT !.sent = Append(@, event_description)] ELSE b1
      b3 == IF b2.first # "" /\ (~m.is_thinking \/ dispatched)
            THEN [b2 EXCEPT !.last_sent = (Len(b2.sent) = 1 /\ b2.sent[1] = event_description)]
            ELSE b2
  IN [r EXCEPT !.burst = b3,
               !.dispatch_times = IF dispatched THEN Last(Append(@, now), 2) ELSE @]

FreeSlots(ths) == {t \in DOMAIN ths : ths[t].pc = "idle"}
MinOf(S) == CHOOSE a \in S : \A b \in S : a <= b

RECURSIVE StartThreads(_, _)
StartThreads(ths, prompts) ==
  IF prompts = <<>> THEN ths
  ELSE StartThreads([ths EXCEPT ![MinOf(FreeSlots(ths))] =
                       [pc |-> "start", prompt |-> prompts[1], output |-> <<>>]],
                    Tail(prompts))

\* the end of a callback: its writes, and the threads it started
Commit(m) ==
  /\ request_count + Len(m.started) <= MaxRequests
  /\ Cardinality(FreeSlots(threads)) >= Len(m.started)
  /\ is_thinking' = m.is_thinking
  /\ last_event_time' = m.last_event_time
  /\ burst' = m.burst
  /\ dispatch_times' = m.dispatch_times
  /\ threads' = StartThreads(threads, m.started)
  /\ request_count' = request_count + Len(m.started)

\* the tiers with the thresholds 20 and 5
ThrowEvent_20_5(speedSq) ==
  IF speedSq > 20 * 20 THEN "being thrown really fast"
  ELSE IF speedSq > 5 * 5 THEN "being tossed"
  ELSE "being put down gently"

\* on_mouse_release: the event named after the speed of the throw
ThrowEvent(speedSq) ==
  IF speedSq > FAST_SPEED * FAST_SPEED THEN "being thrown really fast"
  ELSE IF speedSq > TOSS_SPEED * TOSS_SPEED THEN "being tossed"
  ELSE "being put down gently"

\* _apply_physics, as far as it raises events: wall is the test of line 115
_apply_physics(m, wall) ==
  IF is_dragging THEN m
  ELSE IF wall /\ ~m.is_thinking THEN Raise(m, "hit a wall")
  ELSE m

\* one frame: update(), then the random thought; bored is randint(1, 300) == 1
game_loop(wall, bored) ==
  /\ ~closed
  /\ LET m1 == _apply_physics(Main, wall)
         m2 == IF ~m1.is_thinking /\ ~bubble_visible /\ bored
               THEN Raise(m1, "got bored") ELSE m1
     IN Commit(m2)
  /\ UNCHANGED <<now, is_dragging, state, bubble_visible, bubble_message, hide_timers,
                 after_queue, dialog_open, closed, conversation_history, last_call>>
  /\ UNCHANGED <<kinVars, faceVars>>

\* The dialog of ask_pet_dialog is modal: while it is open the pointer and
\* the keyboard belong to it, timers and posted callbacks still run.
InputAllowed == ~closed /\ ~dialog_open

\* hit is the test dist <= radius of line 164
on_mouse_press(hit) ==
  /\ InputAllowed
  /\ hit
  /\ is_dragging' = TRUE
  /\ Commit(Raise(Main, "being picked up"))
  /\ UNCHANGED <<now, state, bubble_visible, bubble_message, hide_timers,
                 after_queue, dialog_open, closed, conversation_history, last_call>>
  /\ UNCHANGED <<kinVars, faceVars>>

on_mouse_release(speedSq) ==
  /\ InputAllowed
  /\ is_dragging
  /\ is_dragging' = FALSE
  /\ Commit(Raise(Main, ThrowEvent(speedSq)))
  /\ UNCHANGED <<now, state, bubble_visible, bubble_message, hide_timers,
                 after_queue, dialog_open, closed, conversation_history, last_call>>
  /\ UNCHANGED <<kinVars, faceVars>>

\* <KeyPress-t>: up to the call of askstring
ask_pet_dialog ==
  /\ InputAllowed
  /\ ~is_thinking
  /\ dialog_open' = TRUE
  /\ UNCHANGED <<now, is_thinking, last_event_time, is_dragging, state, bubble_visible,
                 bubble_message, hide_timers, after_queue, closed, threads,
                 conversation_history, last_call, burst, dispatch_times, request_count>>
  /\ UNCHANGED <<kinVars, faceVars>>

\* askstring returns user_input: the rest of ask_pet_dialog
ask_pet_dialog_return(user_input) ==
  /\ ~closed
  /\ dialog_open
  /\ dialog_open' = FALSE
  /\ Commit(IF user_input # "" THEN ask_brain(Main, user_input) ELSE Main)
  /\ UNCHANGED <<now, is_dragging, state, bubble_visible, bubble_message, hide_timers,
                 after_queue, closed, conversation_history, last_call>>
  /\ UNCHANGED <<kinVars, faceVars>>

close_app ==
  /\ InputAllowed
  /\ closed' = TRUE
  /\ UNCHANGED <<now, is_thinking, last_event_time, is_dragging, state, bubble_visible,
                 bubble_message, hide_timers, after_queue, dialog_open, threads,
                 conversation_history, last_call, burst, dispatch_times, request_count>>
  /\ UNCHANGED <<kinVars, faceVars>>

DictGet(d, key, default) == IF key \in DOMAIN d THEN d[key] ELSE default

\* set_state, images being the keys of state_images
set_state_in(images, old_state, new_state) ==
  IF new_state = old_state \/ new_state \notin images THEN old_state ELSE new_state

\* set_state when every image of STATES is loaded
set_state(old_state, new_state) == set_state_in(STATES, old_state, new_state)

\* the Tk loop runs the oldest posted callback: say, set_state, perform_action
\* (perform_action changes the velocity only)
_process_brain_response ==
  /\ ~closed
  /\ after_queue # <<>>
  /\ LET brain_output == Head(after_queue)
     IN /\ bubble_message' = DictGet(brain_output, "response", "...")
        /\ bubble_visible' = TRUE
        /\ hide_timers' = hide_timers + 1
        /\ state' = set_state(state, DictGet(brain_output, "state", "neutral"))
  /\ after_queue' = Tail(after_queue)
  /\ UNCHANGED <<now, is_thinking, last_event_time, is_dragging, dialog_open, closed,
                 threads, conversation_history, last_call, burst, dispatch_times,
                 request_count>>
  /\ UNCHANGED <<kinVars, faceVars>>

\* a timer set by say() expires
hide_bubble ==
  /\ ~closed
  /\ hide_timers > 0
  /\ hide_timers' = hide_timers - 1
  /\ bubble_visible' = FALSE
  /\ bubble_message' = ""
  /\ UNCHANGED <<now, is_thinking, last_event_time, is_dragging, state, after_queue,
                 dialog_open, closed, threads, conversation_history, last_call, burst,
                 dispatch_times, request_count>>
  /\ UNCHANGED <<kinVars, faceVars>>

\* ---- the request thread: _ask_brain_thread, statement by statement ----
\* brain.py:93
ThreadAppend(t) ==
  /\ threads[t].pc = "start"
  /\ conversation_history' = Append(conversation_history, UserTurn(threads[t].prompt))
  /\ threads' = [threads EXCEPT ![t].pc = "chat"]
  /\ UNCHANGED <<now, is_thinking, last_event_time, is_dragging, state, bubble_visible,
                 bubble_message, hide_timers, after_queue, dialog_open, closed,
                 last_call, burst, dispatch_times, request_count>>
  /\ UNCHANGED <<kinVars, faceVars>>

\* brain.py:95-125: ollama.chat ends with outcome, get_response returns
ThreadChat(t, outcome) ==
  /\ threads[t].pc = "chat"
  /\ LET r == get_response_rest(conversation_history, outcome)
     IN /\ conversation_history' = r.history
        /\ threads' = [threads EXCEPT ![t].pc = "post", ![t].output = <<r.output>>]
        /\ last_call' = [returned |-> TRUE, before |-> Pop(conversation_history),
                         failed |-> r.failed, output |-> <<r.output>>,
                         outcome |-> outcome]
  /\ UNCHANGED <<now, is_thinking, last_event_time, is_dragging, state, bubble_visible,
                 bubble_message, hide_timers, after_queue, dialog_open, closed,
                 burst, dispatch_times, request_count>>
  /\ UNCHANGED <<kinVars, faceVars>>

\* body.py:219: canvas.after raises once the application is destroyed, and
\* the exception ends the thread
ThreadPost(t) ==
  /\ threads[t].pc = "post"
  /\ IF closed
     THEN /\ threads' = [threads EXCEPT ![t].pc = "crashed"]
          /\ UNCHANGED after_queue
     ELSE /\ threads' = [threads EXCEPT ![t].pc = "clear"]
          /\ after_queue' = Append(after_queue, threads[t].output[1])
  /\ UNCHANGED <<now, is_thinking, last_event_time, is_dragging, state, bubble_visible,
                 bubble_message, hide_timers, dialog_open, closed, conversation_history,
                 last_call, burst, dispatch_times, request_count>>
  /\ UNCHANGED <<kinVars, faceVars>>

\* body.py:220
ThreadClear(t) ==
  /\ threads[t].pc = "clear"
  /\ is_thinking' = FALSE
  /\ threads' = [threads EXCEPT ![t] = IdleThread]
  /\ UNCHANGED <<now, last_event_time, is_dragging, state, bubble_visible,
                 bubble_message, hide_timers, after_queue, dialog_open, closed,
                 conversation_history, last_call, burst, dispatch_times, request_count>>
  /\ UNCHANGED <<kinVars, faceVars>>

_ask_brain_thread(t) ==
  \/ ThreadAppend(t)
  \/ \E outcome \in Outcomes : ThreadChat(t, outcome)
  \/ ThreadPost(t)
  \/ ThreadClear(t)

\* the clock moves on (only callbacks read it); a new clock reading starts a
\* new burst
AdvanceTime ==
  /\ ~closed
  /\ now + TimeStep <= MaxTime
  /\ now' = now + TimeStep
  /\ burst' = NoBurst
  /\ UNCHANGED <<is_thinking, last_event_time, is_dragging, state, bubble_visible,
                 bubble_message, hide_timers, after_queue, dialog_open, closed, threads,
                 conversation_history, last_call, dispatch_times, request_count>>
  /\ UNCHANGED <<kinVars, faceVars>>

Next ==
  \/ \E wall \in BOOLEAN, bored \in BOOLEAN : game_loop(wall, bored)
  \/ \E hit \in BOOLEAN : on_mouse_press(hit)
  \/ \E speedSq \in SpeedSqs : on_mouse_release(speedSq)
  \/ ask_pet_dialog
  \/ \E user_input \in UserInputs : ask_pet_dialog_return(user_input)
  \/ close_app
  \/ _process_brain_response
  \/ hide_bubble
  \/ \E t \in 1..MaxThreads : _ask_brain_thread(t)
  \/ AdvanceTime

Spec == InitBridge /\ [][Next]_vars

\* The request thread is scheduled until it ends; the interactive thread
\* runs callbacks only as long as the window lives.
LiveSpec == InitBridge /\ [][Next]_vars /\ WF_vars(\E t \in 1..MaxThreads : _ask_brain_thread(t))

(* ---------------- SpecPhysics: the motion of the pet ---------------- *)
\* SpecPhysics tracks x, y, vx, vy and the drag; it does not track the
\* bridge: the test "not self.is_thinking" of body.py:117 is an input of the
\* frame, and trace records the event a callback hands to trigger_event.
radius == (IMAGE_SIZE * UNIT) \div 2
screen_width == SCREEN_WIDTH * UNIT
ground_level == (SCREEN_HEIGHT - GROUND_MARGIN) * UNIT

Abs(v) == IF v >= 0 THEN v ELSE -v
\* v * factor, factor in thousandths
Times(v, factor) ==
  IF v >= 0 THEN (v * factor) \div 1000 ELSE -(((-v) * factor) \div 1000)

Kin == [x |-> x, y |-> y, vx |-> vx, vy |-> vy, wall |-> FALSE]

\* body.py:93-102: gravity, air friction, the move
fall(p) ==
  LET vx1 == Times(p.vx, AIR_FRICTION)
      vy1 == Times(p.vy + Times(UNIT, GRAVITY), AIR_FRICTION)
  IN [p EXCEPT !.vx = vx1, !.vy = vy1, !.x = p.x + vx1, !.y = p.y + vy1]

\* a ground collision that never brings the pet to rest
ground_collision_without_rest(p) ==
  IF p.y + radius >= ground_level
  THEN [p EXCEPT !.y = ground_level - radius,
                 !.vy = -Times(p.vy, BOUNCE_FACTOR),
                 !.vx = Times(p.vx, GROUND_FRICTION)]
  ELSE p

\* body.py:104-112
ground_collision(p) ==
  IF p.y + radius >= ground_level
  THEN LET vy1 == -Times(p.vy, BOUNCE_FACTOR)
       IN [p EXCEPT !.y = ground_level - radius,
                    !.vy = IF Abs(vy1) < REST_SPEED * UNIT THEN 0 ELSE vy1,
                    !.vx = Times(p.vx, GROUND_FRICTION)]
  ELSE p

\* a wall collision that turns the pet round where it is
wall_collision_without_snap(p) ==
  IF p.x + radius >= screen_width \/ p.x - radius <= 0
  THEN [p EXCEPT !.wall = TRUE, !.vx = -Times(p.vx, BOUNCE_FACTOR)]
  ELSE p

\* body.py:114-124: wall records the test of line 115
wall_collision(p) ==
  IF p.x + radius >= screen_width \/ p.x - radius <= 0
  THEN [p EXCEPT !.wall = TRUE,
                 !.vx = -Times(p.vx, BOUNCE_FACTOR),
                 !.x = IF p.x + radius >= screen_width THEN screen_width - radius
                       ELSE radius]
  ELSE p

\* body.py:126-129
ceiling_collision(p) ==
  IF p.y - radius <= 0
  THEN [p EXCEPT !.y = radius, !.vy = -Times(p.vy, BOUNCE_FACTOR)]
  ELSE p

\* physics that does not stop for a drag
motion_while_dragging(p, dragging) ==
  ceiling_collision(wall_collision(ground_collision(fall(p))))

\* _apply_physics, as far as it moves the pet
motion(p, dragging) ==
  IF dragging THEN p
  ELSE ceiling_collision(wall_collision(ground_collision(fall(p))))

\* a jump from any height
_action_jump_in_mid_air(p) == [p EXCEPT !.vy = -JUMP_SPEED * UNIT]

_action_jump(p) ==
  IF p.y + radius >= ground_level - GROUND_SLACK * UNIT
  THEN [p EXCEPT !.vy = -JUMP_SPEED * UNIT]
  ELSE p

\* push is random.choice([-15, 15])
_action_slide(p, push) == [p EXCEPT !.vx = p.vx + push]

perform_action(p, dragging, action_name, push) ==
  IF dragging THEN p
  ELSE IF action_name = "jump" THEN _action_jump(p)
  ELSE IF action_name = "slide" THEN _action_slide(p, push)
  ELSE p

\* pointer positions, in pixels: the place where the pet starts, the bottom
\* right corner, the points 4 pixels to its left and 12 pixels above it, and
\* the top left corner
MousePoints ==
  {<<SCREEN_WIDTH \div 2, SCREEN_HEIGHT \div 4>>,
   <<SCREEN_WIDTH, SCREEN_HEIGHT>>, <<SCREEN_WIDTH - 4, SCREEN_HEIGHT>>,
   <<SCREEN_WIDTH, SCREEN_HEIGHT - 12>>, <<0, 0>>}
ActionNames == {"jump", "slide", "none"}
Pushes == {-SLIDE_SPEED * UNIT, SLIDE_SPEED * UNIT}

\* the pet lies on the floor
Resting == ~is_dragging /\ y = ground_level - radius /\ vy = 0

SetKin(q) == x' = q.x /\ y' = q.y /\ vx' = q.vx /\ vy' = q.vy

bridgeVars == <<now, is_thinking, last_event_time, state, bubble_visible, bubble_message,
                hide_timers, after_queue, dialog_open, closed, threads,
                conversation_history, last_call, burst, dispatch_times, request_count>>

\* one frame of game_loop: BouncingBall.update()
Update(thinking) ==
  /\ trace.steps < MaxSteps
  /\ LET q == motion(Kin, is_dragging)
     IN /\ SetKin(q)
        /\ trace' = [trace EXCEPT !.op = "update", !.arg = "", !.wall = q.wall,
                                  !.rest = Resting,
                                  !.event = IF q.wall /\ ~thinking THEN "hit a wall"
                                            ELSE "",
                                  !.steps = @ + 1]
  /\ UNCHANGED <<is_dragging, last_mouse_x, last_mouse_y, bridgeVars, faceVars>>

\* on_mouse_press at the pixel (ex, ey), the button being up
MousePress(ex, ey) ==
  /\ ~is_dragging
  /\ trace.steps < MaxSteps
  /\ (ex * UNIT - x) * (ex * UNIT - x) + (ey * UNIT - y) * (ey * UNIT - y)
       <= radius * radius
  /\ is_dragging' = TRUE
  /\ vx' = 0
  /\ vy' = 0
  /\ last_mouse_x' = ex * UNIT
  /\ last_mouse_y' = ey * UNIT
  /\ trace' = [trace EXCEPT !.op = "press", !.arg = "", !.wall = FALSE, !.rest = FALSE,
                            !.event = "being picked up", !.steps = @ + 1]
  /\ UNCHANGED <<x, y, bridgeVars, faceVars>>

\* on_mouse_drag: the pointer has moved to the pixel (ex, ey)
MouseDrag(ex, ey) ==
  /\ trace.steps < MaxSteps
  /\ is_dragging
  /\ <<ex * UNIT, ey * UNIT>> # <<last_mouse_x, last_mouse_y>>
  /\ LET dx == ex * UNIT - last_mouse_x
         dy == ey * UNIT - last_mouse_y
     IN SetKin([x |-> x + dx, y |-> y + dy, vx |-> dx, vy |-> dy])
  /\ last_mouse_x' = ex * UNIT
  /\ last_mouse_y' = ey * UNIT
  /\ trace' = [trace EXCEPT !.op = "drag", !.arg = "", !.wall = FALSE, !.rest = FALSE,
                            !.event = "", !.steps = @ + 1]
  /\ UNCHANGED <<is_dragging, bridgeVars, faceVars>>

\* on_mouse_release: while the pet is held its velocity is a whole number of
\* pixels, so the squared speed is exact
MouseRelease ==
  /\ trace.steps < MaxSteps
  /\ is_dragging
  /\ is_dragging' = FALSE
  /\ trace' = [trace EXCEPT !.op = "release", !.arg = "", !.wall = FALSE, !.rest = FALSE,
                            !.event = ThrowEvent((vx * vx + vy * vy) \div (UNIT * UNIT)),
                            !.steps = @ + 1]
  /\ UNCHANGED <<x, y, vx, vy, last_mouse_x, last_mouse_y, bridgeVars, faceVars>>

\* _process_brain_response, as far as it moves the pet: perform_action
ApplyAction(action_name, push) ==
  /\ trace.steps < MaxSteps
  /\ SetKin(perform_action(Kin, is_dragging, action_name, push))
  /\ trace' = [trace EXCEPT !.op = "action", !.arg = action_name, !.wall = FALSE,
                            !.rest = FALSE,
                            !.event = "", !.steps = @ + 1]
  /\ UNCHANGED <<is_dragging, last_mouse_x, last_mouse_y, bridgeVars, faceVars>>

NextPhysics ==
  \/ \E thinking \in BOOLEAN : Update(thinking)
  \/ \E m \in MousePoints : MousePress(m[1], m[2])
  \/ \E m \in MousePoints : MouseDrag(m[1], m[2])
  \/ MouseRelease
  \/ \E action_name \in ActionNames, push \in Pushes : ApplyAction(action_name, push)

SpecPhysics == InitAllImages /\ [][NextPhysics]_vars

(* ---------------- SpecFace: the speech bubble and the mood ---------------- *)
\* SpecFace tracks the expiry time of every timer set by say() and the set
\* of loaded images; it applies results without tracking the requests.
REPLY_GRUMPY == [response |-> "Hmpf.", state |-> "grumpy", action |-> "none"]
FaceOutputs == {REPLY_HAPPY, REPLY_SAD, REPLY_GRUMPY, FALLBACK}

faceRestVars == <<is_thinking, last_event_time, is_dragging, hide_timers, after_queue,
                  dialog_open, closed, threads, conversation_history, last_call, burst,
                  dispatch_times, request_count, kinVars, state_images>>

\* _process_brain_response(brain_output): say and set_state
ShowResult(brain_output) ==
  /\ last_say.count < MaxSays
  /\ bubble_message' = DictGet(brain_output, "response", "...")
  /\ bubble_visible' = TRUE
  /\ bubble_timers' = Append(bubble_timers, now + BUBBLE_DURATION)
  /\ state' = set_state_in(state_images, state, DictGet(brain_output, "state", "neutral"))
  /\ last_say' = [count |-> last_say.count + 1, at |-> now, output |-> <<brain_output>>,
                  mood |-> DictGet(brain_output, "state", "neutral")]
  /\ UNCHANGED <<now, faceRestVars>>

\* the oldest timer set by say() is due: hide_bubble
HideTimerFires ==
  /\ bubble_timers # <<>>
  /\ Head(bubble_timers) <= now
  /\ bubble_timers' = Tail(bubble_timers)
  /\ bubble_visible' = FALSE
  /\ bubble_message' = ""
  /\ UNCHANGED <<now, state, last_say, faceRestVars>>

NextFace ==
  \/ \E brain_output \in FaceOutputs : ShowResult(brain_output)
  \/ HideTimerFires
  \/ AdvanceTime

SpecFace == Init /\ [][NextFace]_vars

(* ======================= the claims ======================= *)
\* a request is in flight while its thread lives
InFlight == {t \in 1..MaxThreads : threads[t].pc \in {"start", "chat", "post", "clear"}}
StartsNoThread == \A t \in 1..MaxThreads : threads[t].pc = "idle" => threads'[t].pc = "idle"
TheOutput(call) == call.output[1]

\* C1: at most one request thread is in flight in every reachable state, and
\* a step taken while is_thinking is true starts no thread.
C1_SingleFlight ==
  /\ [](Cardinality(InFlight) <= 1)
  /\ [][is_thinking => StartsNoThread]_vars

\* C1 witness: a user prompt is the only request ever admitted and is still in
\* flight, yet the cooldown stamp was set: an event reached
\* _think_in_background while busy and started nothing.
C1_RefusedWhileBusy ==
  /\ request_count = 1
  /\ last_event_time = now
  /\ \E t \in 1..MaxThreads : threads[t].pc = "chat" /\ threads[t].prompt = UserPrompt("hello")

\* C2 (as claimed): while an admitted request has not yet posted its result,
\* no earlier result is still waiting to be applied by _process_brain_response.
C2_EarlierResultsApplied ==
  \A t \in 1..MaxThreads : threads[t].pc \in {"start", "chat", "post"} => after_queue = <<>>

\* C3 (as claimed): whenever is_thinking is true it eventually becomes false.
C3_EventuallyClears == is_thinking ~> ~is_thinking

\* C4 (as claimed): a failed get_response returns action "none" and state
\* "sad" or "angry".
C4_FallbackIsNone ==
  (last_call.returned /\ last_call.failed) =>
     /\ TheOutput(last_call).action = "none"
     /\ TheOutput(last_call).state \in {"sad", "angry"}

\* C5: after every get_response that has returned, the history has at most
\* 1 + 6 entries and its first entry is the system prompt.
C5_HistoryBound ==
  /\ Len(conversation_history) <= 1 + 6
  /\ conversation_history[1] = system_prompt

\* C5 witness: a successful call on a full history has returned, so the
\* history was truncated.
C5_Truncated ==
  /\ last_call.returned /\ ~last_call.failed
  /\ Len(last_call.before) = 7
  /\ Len(conversation_history) = 7

\* C6 (as claimed): after a failed get_response the history is what it was
\* before the call.
C6_FailureRollsBack ==
  (last_call.returned /\ last_call.failed) => conversation_history = last_call.before

C8_CooldownSpacing ==
  Len(dispatch_times) = 2 => dispatch_times[2] - dispatch_times[1] >= EVENT_COOLDOWN

\* C8 witness: a second event request has been dispatched.
C8_TwoDispatches == Len(dispatch_times) = 2

\* C9 (as claimed): a step of the interactive thread taken while is_thinking
\* is true changes neither last_event_time nor the conversation history.
C9_BusyIsNoOp ==
  [][(is_thinking /\ threads' = threads) =>
       UNCHANGED <<last_event_time, conversation_history>>]_vars

\* C10: a user prompt handed to ask_brain while not busy starts a request
\* with that prompt whatever the cooldown, and leaves last_event_time alone;
\* while busy it changes nothing.
C10_AskBypassesCooldown ==
  [][\A user_input \in UserInputs \ {""} :
       ask_pet_dialog_return(user_input) =>
         IF is_thinking
         THEN UNCHANGED <<is_thinking, last_event_time, threads, after_queue,
                          conversation_history, request_count>>
         ELSE /\ is_thinking'
              /\ last_event_time' = last_event_time
              /\ \E t \in 1..MaxThreads :
                   /\ threads[t].pc = "idle"
                   /\ threads'[t] = [pc |-> "start", prompt |-> UserPrompt(user_input),
                                     output |-> <<>>]]_vars

\* C10 witness: a user prompt was admitted less than EVENT_COOLDOWN after an
\* event was dispatched.
C10_AdmittedInsideCooldown ==
  /\ dispatch_times # <<>>
  /\ now - dispatch_times[Len(dispatch_times)] < EVENT_COOLDOWN
  /\ \E t \in 1..MaxThreads : threads[t].pc = "start" /\ threads[t].prompt = UserPrompt("hello")

(* ---------------- the claims about the motion (SpecPhysics) ---------------- *)
InsidePlayArea ==
  /\ y + radius <= ground_level
  /\ y - radius >= 0
  /\ radius <= x
  /\ x <= screen_width - radius
SpeedSq == vx * vx + vy * vy
Px(n) == n * UNIT

\* C11: while the pet is held (is_dragging), a callback other than
\* on_mouse_drag - a frame of physics, a jump or slide asked by the model, the
\* release - leaves x, y, vx and vy unchanged.
C11_DragOverridesPhysics ==
  [][(is_dragging /\ trace'.op # "drag") => UNCHANGED <<x, y, vx, vy>>]_vars

\* a frame ran while the pet was being moved by the pointer
C11_FrameWhileHeld == is_dragging /\ trace.op = "update" /\ vx # 0

\* C12 as stated: at release the speed is classified with the thresholds 20
\* and 5 (over 20 thrown really fast, over 5 up to 20 tossed, up to 5 put
\* down gently).
C12_Tiers_20_5 ==
  trace.op = "release" =>
    trace.event = (IF SpeedSq > Px(20) * Px(20) THEN "being thrown really fast"
                   ELSE IF SpeedSq > Px(5) * Px(5) THEN "being tossed"
                   ELSE "being put down gently")

\* C12, amended: at release the speed is classified with the thresholds 10
\* and 3, and the release raises exactly the one event of its tier.
C12_Tiers_10_3 ==
  trace.op = "release" =>
    /\ SpeedSq > Px(10) * Px(10) => trace.event = "being thrown really fast"
    /\ (SpeedSq > Px(3) * Px(3) /\ SpeedSq <= Px(10) * Px(10)) => trace.event = "being tossed"
    /\ SpeedSq <= Px(3) * Px(3) => trace.event = "being put down gently"

\* a release at 4 pixels per frame, which the code calls a toss
C12_TossAt4 == trace.op = "release" /\ SpeedSq = Px(4) * Px(4) /\ trace.event = "being tossed"

\* C13: after every frame of physics run while the pet is not held, the pet
\* is inside the play area, wherever the frame found it.
C13_InsideAfterFrame == (trace.op = "update" /\ ~is_dragging) => InsidePlayArea

\* a frame brought the pet back from beyond the bottom right corner
C13_BackFromCorner ==
  /\ trace.op = "update" /\ ~is_dragging /\ trace.wall
  /\ x = screen_width - radius
  /\ y = ground_level - radius

\* C16: a jump asked by the model sets vy to the jump speed if the pet is
\* not held and is at most 5 pixels above the ground; in every other state
\* it leaves the velocity as it is.
C16_JumpOnlyFromGround ==
  [][(trace'.op = "action" /\ trace'.arg = "jump") =>
       /\ vx' = vx
       /\ IF ~is_dragging /\ y + radius >= ground_level - Px(GROUND_SLACK)
          THEN vy' = -Px(JUMP_SPEED)
          ELSE vy' = vy]_vars

\* a jump from the floor
C16_JumpedFromFloor ==
  /\ trace.op = "action" /\ trace.arg = "jump"
  /\ y = ground_level - radius /\ vy = -Px(JUMP_SPEED)

\* C19: a frame that finds the pet at rest on the floor (y = ground_level -
\* radius, vy = 0, not held) leaves y and vy unchanged.
C19_RestIsStable ==
  [][(Resting /\ trace'.op = "update") => (y' = y /\ vy' = 0)]_vars

\* a frame has run on a pet at rest
C19_FrameAtRest == trace.op = "update" /\ trace.rest /\ Resting

\* C20 as stated: after a frame has detected a wall collision and snapped the
\* pet to that wall, the next frame detects no collision with the same wall
\* (the pet has not been away from it).
C20_OneEventPerImpact ==
  [][(trace.op = "update" /\ trace.wall /\ ~is_dragging /\ trace'.op = "update"
        /\ trace'.wall) => x' # x]_vars

(* ---------------- the claims about the bubble and the mood (SpecFace) ---------------- *)
\* C14 as stated: until the full duration has passed since the most recent
\* say, the bubble of that say is visible: no timer of an earlier say hides it.
C14_BubbleLastsItsDuration ==
  (last_say.count > 0 /\ now < last_say.at + BUBBLE_DURATION) =>
     /\ bubble_visible
     /\ bubble_message = DictGet(last_say.output[1], "response", "...")

\* C15 as stated: after a result that names one of the six moods, that mood
\* is the internal mood, whether or not its image was loaded.
C15_KnownMoodIsSet == (last_say.count > 0 /\ last_say.mood \in STATES) => state = last_say.mood

(* ---------------- the claims about the parsing of the reply (SpecBrain) ---------------- *)
REQUIRED_FIELDS == {"response", "state", "action"}
\* the reply is a JSON object that lacks a required field
IsPartialReply(outcome) ==
  /\ ~outcome.raised
  /\ json_loads(StripFence(outcome.content)).ok
  /\ ~(REQUIRED_FIELDS \subseteq DOMAIN json_loads(StripFence(outcome.content)).value)
\* the reply is one JSON object between code fences (three backquotes, with
\* or without the word json, with or without whitespace around them)
FENCE_CHARS == {BQ, "j", "s", "o", "n"} \cup JSON_WHITESPACE
IsFencedReply(outcome) ==
  /\ ~outcome.raised
  /\ Len(SelectSeq(outcome.content, IsObj)) = 1
  /\ Len(SelectSeq(outcome.content, IsCh)) >= 6
  /\ \A i \in 1..Len(outcome.content) :
       IsCh(outcome.content[i]) => outcome.content[i].c \in FENCE_CHARS
FencedObject(outcome) == SelectSeq(outcome.content, IsObj)[1].o

\* C17 as stated: a reply that is valid JSON but lacks a required field is a
\* failure: the fallback is returned and the partial reply is not recorded
\* as an assistant turn.
C17_PartialReplyIsFailure ==
  (last_call.returned /\ IsPartialReply(last_call.outcome)) =>
     /\ TheOutput(last_call) = FALLBACK
     /\ \A i \in 1..Len(conversation_history) :
          conversation_history[i] #
            AssistantTurn(json_loads(StripFence(last_call.outcome.content)).value)

\* C18 as stated: a reply that is a JSON object between code fences gives
\* the result of the object alone and is never a failure.
C18_FenceIsStripped ==
  (last_call.returned /\ IsFencedReply(last_call.outcome)) =>
     /\ ~last_call.failed
     /\ TheOutput(last_call) = FencedObject(last_call.outcome)

(* ---------------- the claim about the shape of the history ---------------- *)
\* the system prompt, then user and assistant turns in pairs
WellFormedHistory(history) ==
  /\ Len(history) >= 1
  /\ history[1] = system_prompt
  /\ Len(history) % 2 = 1
  /\ \A i \in 2..Len(history) :
       history[i].role = (IF i % 2 = 0 THEN "user" ELSE "assistant")

\* C21: whenever no request is in flight, the conversation history is the
\* system prompt followed by complete user/assistant pairs in strict
\* alternation, after successful calls, failed calls and truncations.
C21_HistoryWellFormed == InFlight = {} => WellFormedHistory(conversation_history)

\* a call on a full history got a reply that is no JSON: the fallback was
\* recorded and the history truncated
C21_TruncatedOnFallback ==
  /\ last_call.returned /\ last_call.failed /\ ~last_call.outcome.raised
  /\ Len(last_call.before) = 7
  /\ Len(conversation_history) = 7

====
